---- MODULE Spec2Model ----
(***************************************************************************)
(* bun-spa: serve a built single-page application from memory.             *)
(*                                                                         *)
(* bunSpa(options) scans a directory once, keeps every matched file in a   *)
(* Map keyed by "/" + relative path, and returns an async request handler  *)
(* that answers from that Map, falling back to the index document and      *)
(* optionally replacing a placeholder in it with the result of a           *)
(* per-request callback.                                                   *)
(*                                                                         *)
(* Text is modelled as sequences of tokens (one token stands for a run of  *)
(* characters or bytes), so that URL parsing, UTF-8 decoding and           *)
(* String.prototype.replace are computed rather than assumed.              *)
(***************************************************************************)
EXTENDS Integers, Sequences, FiniteSets, TLC

\* ------------------------------------------------------------------ bounds

\* number of requests the host may have in flight at once
MaxReq == 2
\* longest index document drawn for the placeholder specification
MaxDocLen == 4

ReqIds == 1..MaxReq

\* --------------------------------------------------------- sequence helpers

Min(S) == CHOOSE x \in S : \A y \in S : x <= y

\* s from position i to its end
Tail1(s, i) == SubSeq(s, i, Len(s))

\* first position >= from whose token is in stop, or Len(s) + 1
FirstIn(s, stop, from) ==
  LET hits == {i \in from..Len(s) : s[i] \in stop}
  IN IF hits = {} THEN Len(s) + 1 ELSE Min(hits)

RECURSIVE Flatten(_)
Flatten(ss) == IF ss = <<>> THEN <<>> ELSE Head(ss) \o Flatten(Tail(ss))

\* all sequences over alphabet A of length at most n
RECURSIVE SeqsUpTo(_, _)
SeqsUpTo(A, n) ==
  IF n = 0 THEN {<<>>}
  ELSE LET shorter == SeqsUpTo(A, n - 1)
       IN shorter \cup {Append(s, a) : s \in shorter, a \in A}

\* ------------------------------------------------------------ URL (WHATWG)

\* percent-encoding of the path component: a space becomes %20, every
\* other token of the model's alphabet is left as it is
EncodePathToken(c) == IF c = " " THEN "%20" ELSE c

PercentEncode(p) == [i \in 1..Len(p) |-> EncodePathToken(p[i])]

\* new URL(text): text is <<scheme, host, [":", port,] path..., ["?", q...], ["#", h...]>>
ParseURL(s) ==
  LET pathStart == FirstIn(s, {"/", "?", "#"}, 3)
      authority == SubSeq(s, 2, pathStart - 1)
      pathEnd   == FirstIn(s, {"?", "#"}, pathStart)
      rawPath   == SubSeq(s, pathStart, pathEnd - 1)
      hashStart == FirstIn(s, {"#"}, pathEnd)
  IN [ protocol |-> s[1],
       hostname |-> authority[1],
       port     |-> IF Len(authority) >= 3 /\ authority[2] = ":" THEN authority[3] ELSE "",
       pathname |-> IF rawPath = <<>> THEN <<"/">> ELSE PercentEncode(rawPath),
       search   |-> SubSeq(s, pathEnd, hashStart - 1),
       hash     |-> Tail1(s, hashStart) ]

\* url.href
SerializeURL(u) ==
  <<u.protocol, u.hostname>>
    \o (IF u.port = "" THEN <<>> ELSE <<":", u.port>>)
    \o u.pathname \o u.search \o u.hash

\* new Request(text).url is the serialization of the parsed text
NewRequest(text) == [url |-> SerializeURL(ParseURL(text))]

\* --------------------------------------------------------- text and bytes

\* new TextDecoder().decode(bytes): UTF-8, a leading byte order mark is
\* dropped, an invalid byte becomes U+FFFD
DecodeByte(b) == IF b = "BAD" THEN "U+FFFD" ELSE b

TextDecode(bytes) ==
  LET body == IF bytes # <<>> /\ bytes[1] = "BOM" THEN Tail(bytes) ELSE bytes
  IN [i \in 1..Len(body) |-> DecodeByte(body[i])]

\* the UTF-8 bytes of a string body handed to new Response(string)
EncodeChar(c) == IF c = "U+FFFD" THEN <<"EF", "BF", "BD">> ELSE <<c>>

TextEncode(text) == Flatten([i \in 1..Len(text) |-> EncodeChar(text[i])])

\* ------------------------------------------- String.prototype.replace

\* a placeholder is [regexp, source, global]: source is a sequence of
\* character classes (sets of tokens); a string placeholder has singleton
\* classes and is neither regexp nor global
MatchAt(text, i, source) ==
  /\ i + Len(source) - 1 <= Len(text)
  /\ \A k \in 1..Len(source) : text[i + k - 1] \in source[k]

\* leftmost match at or after from, 0 when there is none
FirstMatch(text, source, from) ==
  LET hits == {i \in from..Len(text) : MatchAt(text, i, source)}
  IN IF hits = {} THEN 0 ELSE Min(hits)

\* replace(pattern, () => injected) for a string or a non-global RegExp:
\* the leftmost match only
ReplaceFirst(text, source, injected) ==
  LET m == FirstMatch(text, source, 1)
  IN IF m = 0 THEN text
     ELSE SubSeq(text, 1, m - 1) \o injected \o Tail1(text, m + Len(source))

\* replace(/.../g, () => injected): every match, scanning left to right and
\* resuming after the end of the previous match
RECURSIVE ReplaceFrom(_, _, _, _)
ReplaceFrom(text, source, injected, from) ==
  LET m == FirstMatch(text, source, from)
  IN IF m = 0 THEN Tail1(text, from)
     ELSE SubSeq(text, from, m - 1) \o injected
            \o ReplaceFrom(text, source, injected, m + Len(source))

\* variant: replaceAll semantics whatever the placeholder is
ReplaceAllMatches(text, placeholder, injected) ==
  ReplaceFrom(text, placeholder.source, injected, 1)

\* indexContent.replace(indexInjectorPlaceholder, () => injected)
Replace(text, placeholder, injected) ==
  IF placeholder.regexp /\ placeholder.global
    THEN ReplaceFrom(text, placeholder.source, injected, 1)
    ELSE ReplaceFirst(text, placeholder.source, injected)

\* ------------------------------------------------------ the file system

\* relative paths as Bun.Glob.scan yields them (forward slashes)
IndexHtml  == <<"index", ".html">>
CustomHtml == <<"custom", ".html">>
AppJs      == <<"assets", "/", "app", ".js">>
MyFileJs   == <<"my", " ", "file", ".js">>

\* the placeholder  <!-- bun-spa-placeholder -->  as two tokens
PhOpen  == "<!--"
PhClose == "-->"

\* the file system the tests build: the directories that exist ("missing"
\* does not) and the bytes of each file under them
TestDisk ==
  [d \in {"dist", "empty"} |->
     IF d = "dist"
       THEN (IndexHtml  :> <<"BOM", "<div>", PhOpen, PhClose, "</div>", PhOpen, PhClose>>)
         @@ (CustomHtml :> <<"<p>", "BAD", "</p>">>)
         @@ (AppJs      :> <<"log(", PhOpen, PhClose, ")">>)
         @@ (MyFileJs   :> <<"my()">>)
       ELSE <<>>]

\* Bun.file(path).type: the MIME type of the file extension
MimeOf(entry) ==
  LET ext == entry[Len(entry)]
  IN CASE ext = ".html" -> "text/html;charset=utf-8"
       [] ext = ".js"   -> "text/javascript;charset=utf-8"
       [] OTHER         -> "application/octet-stream"

\* new Bun.Glob(glob).match(entry)
GlobMatches(glob, entry) ==
  CASE glob = "**/*"      -> TRUE
    [] glob = "**/*.js"   -> entry[Len(entry)] = ".js"
    [] glob = "**/*.html" -> entry[Len(entry)] = ".html"
    [] OTHER              -> FALSE


\* ---------------------------------------------------------------- options

DefaultPlaceholder ==
  [regexp |-> FALSE, global |-> FALSE, source |-> <<{PhOpen}, {PhClose}>>]

\* a RegExp placeholder with the g flag, such as /<!--\s*bun-spa-placeholder\s*-->/g
GlobalPlaceholder ==
  [regexp |-> TRUE, global |-> TRUE, source |-> <<{PhOpen}, {PhClose}>>]

\* the same RegExp without the g flag
PlainPlaceholder ==
  [regexp |-> TRUE, global |-> FALSE, source |-> <<{PhOpen}, {PhClose}>>]

ContentTypeName == "Content-Type"

\* a Response as the value it carries; obj is the identity of the object
\* that owns the body stream
DefaultDisabledResponse ==
  [obj |-> [kind |-> "configured", of |-> 0], status |-> 501,
   headers |-> (ContentTypeName :> "text/plain;charset=utf-8"),
   body |-> <<"bun-spa disabled">>]

CustomDisabledResponse ==
  [obj |-> [kind |-> "configured", of |-> 0], status |-> 503,
   headers |-> ("X-Custom" :> "disabled") @@ (ContentTypeName :> "text/plain;charset=utf-8"),
   body |-> <<"Custom", "disabled", "message">>]

\* the option records bunSpa is called with
ServingOptions ==
  [dist : {"dist"}, glob : {"**/*"}, index : {IndexHtml},
   indexInjectorPlaceholder : {DefaultPlaceholder},
   indexInjector : BOOLEAN, headers : BOOLEAN,
   disabled : {FALSE}, disabledResponse : {DefaultDisabledResponse}]
  \cup
  [dist : {"dist"}, glob : {"**/*"}, index : {CustomHtml},
   indexInjectorPlaceholder : {GlobalPlaceholder},
   indexInjector : BOOLEAN, headers : BOOLEAN,
   disabled : {FALSE}, disabledResponse : {DefaultDisabledResponse}]

FailingOptions ==
  [dist : {"dist", "missing", "empty"}, glob : {"**/*.js", "**/*"},
   index : {IndexHtml, <<"nothere", ".html">>},
   indexInjectorPlaceholder : {DefaultPlaceholder},
   indexInjector : {TRUE}, headers : {TRUE},
   disabled : {FALSE}, disabledResponse : {DefaultDisabledResponse}]

DisabledOptions ==
  [dist : {"dist", "missing"}, glob : {"**/*", "**/*.js"}, index : {IndexHtml},
   indexInjectorPlaceholder : {DefaultPlaceholder},
   indexInjector : {TRUE}, headers : {TRUE},
   disabled : {TRUE}, disabledResponse : {DefaultDisabledResponse, CustomDisabledResponse}]

Options == ServingOptions \cup FailingOptions \cup DisabledOptions

\* ----------------------------------------------------- what the host sends

\* the texts the host builds its Request objects from
RequestTexts ==
  { <<"http://", "localhost", "/">>,
    <<"http://", "localhost", "/">> \o IndexHtml,
    <<"http://", "localhost", ":", "3000", "/">> \o AppJs \o <<"?", "v=1", "#", "top">>,
    <<"http://", "localhost", ":", "3000", "/", "some", "/", "route", "?", "param=value">> }

\* what an indexInjector call may resolve to
InjectorValues == { <<"<meta-A>">>, <<"<meta-B>">> }

\* what a headers call may resolve to
HeaderValues ==
  { ("Cache-Control" :> "no-store"),
    ("Cache-Control" :> "no-store") @@ (ContentTypeName :> "text/custom") }

\* ------------------------------------------------------------------ state

VARIABLES
  disk,          \* the file system: directory -> (relative path -> bytes)
  opts,          \* the options bunSpa was called with
  phase,         \* "called", "scanning", "ready" (handler returned), "failed" (bunSpa rejected)
  pending,       \* entries the scan has still to yield
  scans,         \* number of directory scans started
  reads,         \* number of file.arrayBuffer() reads
  files,         \* the Map from "/" + entry to its record
  indexFile,     \* {} (undefined) or {the index record}
  indexContent,  \* the decoded text of the index record
  failure,       \* what bunSpa rejected with, "" when it did not
  reqs           \* per handler call: where it is and what it holds

vars == <<disk, opts, phase, pending, scans, reads, files, indexFile, indexContent, failure, reqs>>

loaderVars == <<disk, opts, phase, pending, scans, reads, files, indexFile, indexContent, failure>>

\* a handler call that has not been made yet
Idle ==
  [pc |-> "idle", req |-> {}, url |-> {}, file |-> {}, content |-> <<>>,
   injCtx |-> <<>>, hdrCtx |-> <<>>, injected |-> {}, hdrResult |-> {},
   response |-> {}, error |-> "", read |-> {}]

\* the files of a directory
DiskFiles(dir) == disk[dir]

\* the entries new Bun.Glob(glob).scan(dist) yields
ScanEntries(glob, dist) ==
  {e \in DOMAIN DiskFiles(dist) : GlobMatches(glob, e)}

Init ==
  /\ disk = TestDisk
  /\ opts \in Options
  /\ phase = "called"
  /\ pending = {}
  /\ scans = 0
  /\ reads = 0
  /\ files = <<>>
  /\ indexFile = {}
  /\ indexContent = <<>>
  /\ failure = ""
  /\ reqs = [r \in ReqIds |-> Idle]

\* ----------------------------------------------------------------- loader

\* the Map key of an entry: `/${entry}`
KeyOf(entry) == <<"/">> \o entry

\* variant: isIndex is decided by the file type, not by the name
FileRecordByType(dist, entry, index) ==
  [type    |-> MimeOf(entry),
   content |-> DiskFiles(dist)[entry],
   file    |-> <<dist, "/">> \o entry,
   isIndex |-> MimeOf(entry) = MimeOf(index)]

\* the record files.set stores for an entry
FileRecord(dist, entry, index) ==
  [type    |-> MimeOf(entry),
   content |-> DiskFiles(dist)[entry],
   file    |-> <<dist, "/">> \o entry,
   isIndex |-> entry = index]

\* files.get(`/${index}`): {} when the Map has no such key
IndexLookup(table, index) ==
  IF KeyOf(index) \in DOMAIN table THEN {table[KeyOf(index)]} ELSE {}

\* variant: the read is guarded, indexFile?.content
NeverThrows(found) == FALSE

\* indexFile.content throws a TypeError when indexFile is undefined
ConstructionThrows(found) == found = {}

\* bunSpa({disabled: true}): the handler is returned at once
ReturnDisabled ==
  /\ phase = "called"
  /\ opts.disabled
  /\ phase' = "ready"
  /\ UNCHANGED <<disk, opts, pending, scans, reads, files, indexFile, indexContent, failure, reqs>>

\* new Bun.Glob(glob).scan(dist) on a directory that does not exist
ScanFails ==
  /\ phase = "called"
  /\ ~opts.disabled
  /\ opts.dist \notin DOMAIN disk
  /\ phase' = "failed"
  /\ failure' = "ENOENT"
  /\ scans' = scans + 1
  /\ UNCHANGED <<disk, opts, pending, reads, files, indexFile, indexContent, reqs>>

ScanStarts ==
  /\ phase = "called"
  /\ ~opts.disabled
  /\ opts.dist \in DOMAIN disk
  /\ phase' = "scanning"
  /\ pending' = ScanEntries(opts.glob, opts.dist)
  /\ scans' = scans + 1
  /\ UNCHANGED <<disk, opts, reads, files, indexFile, indexContent, failure, reqs>>

\* one iteration of the for await loop
LoadEntry(entry) ==
  /\ phase = "scanning"
  /\ entry \in pending
  /\ files' = (KeyOf(entry) :> FileRecord(opts.dist, entry, opts.index)) @@ files
  /\ pending' = pending \ {entry}
  /\ reads' = reads + 1
  /\ UNCHANGED <<disk, opts, phase, scans, indexFile, indexContent, failure, reqs>>

\* variant: the handler is returned as soon as the index record is in the
\* Map, without waiting for the loop to end
ReturnBeforeLoaded ==
  /\ phase = "scanning"
  /\ LET found == IndexLookup(files, opts.index)
     IN /\ found # {}
        /\ phase' = "ready"
        /\ indexFile' = found
        /\ indexContent' = TextDecode((CHOOSE f \in found : TRUE).content)
  /\ UNCHANGED <<disk, opts, pending, scans, reads, files, failure, reqs>>

\* after the loop: the index record is looked up and decoded
FinishLoad ==
  /\ phase = "scanning"
  /\ pending = {}
  /\ LET found == IndexLookup(files, opts.index)
     IN IF ConstructionThrows(found)
          THEN /\ phase' = "failed"
               /\ failure' = "TypeError"
               /\ UNCHANGED <<indexFile, indexContent>>
          ELSE /\ phase' = "ready"
               /\ indexFile' = found
               /\ indexContent' =
                    IF found = {} THEN <<>>
                    ELSE TextDecode((CHOOSE f \in found : TRUE).content)
               /\ UNCHANGED failure
  /\ UNCHANGED <<disk, opts, pending, scans, reads, files, reqs>>

\* ---------------------------------------------------------------- handler

\* variant: a miss falls back to whichever record the Map yields first
LookupAnyFile(table, pathname, fallback) ==
  IF pathname \in DOMAIN table THEN {table[pathname]}
  ELSE IF DOMAIN table = {} THEN fallback
  ELSE {table[CHOOSE k \in DOMAIN table : ~table[k].isIndex \/ DOMAIN table = {k}]}

\* files.get(url.pathname) ?? indexFile
Lookup(table, pathname, fallback) ==
  IF pathname \in DOMAIN table THEN {table[pathname]} ELSE fallback

\* variant: the Map is looked up with the path and the query string
PathAndQuery(url) == url.pathname \o url.search

\* the key the Map is looked up with: url.pathname
LookupKey(url) == url.pathname

\* variant: the isIndex test is dropped
InjectsAlways(file, hasInjector) == hasInjector

\* the negation of  !file.isIndex || !indexInjector
NeedsInjection(file, hasInjector) == file.isIndex /\ hasInjector

\* variant: the index is served from its decoded text
DecodedBody(file, text) == IF file.isIndex THEN TextEncode(text) ELSE file.content

\* the body when nothing is injected: file.content
StaticBody(file, text) == file.content

\* the body when the injector resolved: the index text with the placeholder
\* replaced, as the bytes new Response(string) sends
InjectedBody(text, placeholder, injected) ==
  TextEncode(Replace(text, placeholder, injected))

\* variant: the spread comes first, { ...extra, "Content-Type": file.type }
DefaultWins(type, extra) ==
  [k \in {ContentTypeName} \cup DOMAIN extra |->
     IF k = ContentTypeName THEN type ELSE extra[k]]

\* { "Content-Type": file.type, ...extra }
MergeHeaders(type, extra) ==
  [k \in {ContentTypeName} \cup DOMAIN extra |->
     IF k \in DOMAIN extra THEN extra[k] ELSE type]

\* variant: url and req live outside the closure, shared by the calls in
\* flight, and hold what the earliest of them stored
SharedContext(rs, r) ==
  LET q == Min({p \in ReqIds : rs[p].pc \notin {"idle", "done", "failed"}} \cup {r})
  IN [url |-> rs[q].url, req |-> rs[q].req, file |-> rs[r].file]

\* { url, req, file } as the closure of call r holds them
CallbackContext(rs, r) ==
  [url |-> rs[r].url, req |-> rs[r].req, file |-> rs[r].file]

\* variant: the configured Response itself is returned
SameResponse(resp, r) == resp

\* disabledResponse.clone()
Clone(resp, r) == [resp EXCEPT !.obj = [kind |-> "clone", of |-> r]]

\* the Response objects whose body the host has read
UsedBodies(rs) ==
  {resp.obj : resp \in UNION {rs[q].response : q \in {p \in ReqIds : rs[p].read # {}}}}

\* the handler's promise resolves with resp, and the host reads its body
\* (await response.text()): reading a body twice fails
Respond(rec, resp, used) ==
  [rec EXCEPT !.pc = "done", !.response = {resp},
              !.read = {[ok |-> resp.obj \notin used,
                         bytes |-> IF resp.obj \in used THEN <<>> ELSE resp.body]}]

\* variant: the failure is caught and turned into a 500 response
CaughtFailure(rec, err) ==
  [rec EXCEPT !.pc = "done",
              !.response = {[obj |-> [kind |-> "response", of |-> 0], status |-> 500,
                             headers |-> <<>>, body |-> <<err>>]},
              !.read = {[ok |-> TRUE, bytes |-> <<err>>]}]

\* a callback threw or rejected: nothing catches it, the handler's promise
\* rejects with the same error
CallbackFailure(rec, err) == [rec EXCEPT !.pc = "failed", !.error = err]

\* headers?.({ url, req, file }): the call, before its result is awaited
InvokeHeaders(rs, r, hasHeaders) ==
  [rs[r] EXCEPT !.pc = "awaitHeaders",
                !.hdrCtx = IF hasHeaders THEN Append(@, CallbackContext(rs, r)) ELSE @]

\* the handler of a disabled bunSpa: async () => disabledResponse.clone()
DisabledHandle(r, text) ==
  /\ phase = "ready"
  /\ opts.disabled
  /\ reqs[r].pc = "idle"
  /\ LET rec  == [reqs[r] EXCEPT !.req = {[id |-> r, url |-> NewRequest(text).url]}]
         used == UsedBodies(reqs)
     IN reqs' = [reqs EXCEPT ![r] =
          IF opts.disabledResponse.obj \in used
            THEN [rec EXCEPT !.pc = "failed", !.error = "TypeError"]
            ELSE Respond(rec, Clone(opts.disabledResponse, r), used)]
  /\ UNCHANGED loaderVars

\* variant: an entry is deleted from the Map once it has been served
HandleAndEvict(r, text) ==
  /\ phase = "ready"
  /\ ~opts.disabled
  /\ reqs[r].pc = "idle"
  /\ LET req  == [id |-> r, url |-> NewRequest(text).url]
         url  == ParseURL(req.url)
         file == Lookup(files, LookupKey(url), indexFile)
         rec  == [reqs[r] EXCEPT !.pc = "running", !.req = {req}, !.url = {url},
                                 !.file = file]
         rs   == [reqs EXCEPT ![r] = rec]
     IN /\ reqs' = [reqs EXCEPT ![r] =
             IF file = {}
               THEN [rec EXCEPT !.pc = "failed", !.error = "TypeError"]
             ELSE LET f == CHOOSE x \in file : TRUE
                  IN IF NeedsInjection(f, opts.indexInjector)
                       THEN [rec EXCEPT !.pc = "awaitInjector",
                                        !.injCtx = Append(@, CallbackContext(rs, r))]
                       ELSE LET withBody == [rec EXCEPT !.content = StaticBody(f, indexContent)]
                            IN InvokeHeaders([rs EXCEPT ![r] = withBody], r, opts.headers)]
        /\ files' = [k \in DOMAIN files \ {LookupKey(url)} |-> files[k]]
  /\ UNCHANGED <<disk, opts, phase, pending, scans, reads, indexFile, indexContent, failure>>

\* the handler up to its first await: lines 59-64, and up to line 72 when
\* nothing is injected
Handle(r, text) ==
  /\ phase = "ready"
  /\ ~opts.disabled
  /\ reqs[r].pc = "idle"
  /\ LET req  == [id |-> r, url |-> NewRequest(text).url]
         url  == ParseURL(req.url)
         file == Lookup(files, LookupKey(url), indexFile)
         rec  == [reqs[r] EXCEPT !.pc = "running", !.req = {req}, !.url = {url},
                                 !.file = file]
         rs   == [reqs EXCEPT ![r] = rec]
     IN reqs' = [reqs EXCEPT ![r] =
          IF file = {}
            THEN [rec EXCEPT !.pc = "failed", !.error = "TypeError"]
          ELSE LET f == CHOOSE x \in file : TRUE
               IN IF NeedsInjection(f, opts.indexInjector)
                    THEN [rec EXCEPT !.pc = "awaitInjector",
                                     !.injCtx = Append(@, CallbackContext(rs, r))]
                    ELSE LET withBody == [rec EXCEPT !.content = StaticBody(f, indexContent)]
                         IN InvokeHeaders([rs EXCEPT ![r] = withBody], r, opts.headers)]
  /\ UNCHANGED loaderVars

\* the injector's promise resolves: the placeholder is replaced and the
\* headers callback is called
InjectorResolves(r, injected) ==
  /\ reqs[r].pc = "awaitInjector"
  /\ LET rec == [reqs[r] EXCEPT
                   !.injected = {injected},
                   !.content = InjectedBody(indexContent, opts.indexInjectorPlaceholder,
                                            injected)]
     IN reqs' = [reqs EXCEPT ![r] =
                   InvokeHeaders([reqs EXCEPT ![r] = rec], r, opts.headers)]
  /\ UNCHANGED loaderVars

\* variant: a failing injector is ignored: the index is served as it was
\* read and the headers callback is called all the same
RejectionSwallowed(r) ==
  /\ reqs[r].pc = "awaitInjector"
  /\ LET rec == [reqs[r] EXCEPT !.content = TextEncode(indexContent)]
     IN reqs' = [reqs EXCEPT ![r] =
                   InvokeHeaders([reqs EXCEPT ![r] = rec], r, opts.headers)]
  /\ UNCHANGED loaderVars

\* the injector throws or its promise rejects
InjectorRejects(r) ==
  /\ reqs[r].pc = "awaitInjector"
  /\ reqs' = [reqs EXCEPT ![r] = CallbackFailure(reqs[r], "InjectorError")]
  /\ UNCHANGED loaderVars

\* new Response(content, { headers }) with what the headers callback gave
BuildResponse(r, content, type, extra) ==
  [obj |-> [kind |-> "response", of |-> r], status |-> 200,
   headers |-> MergeHeaders(type, extra), body |-> content]

\* the headers callback's promise resolves
HeadersResolve(r, extra) ==
  /\ reqs[r].pc = "awaitHeaders"
  /\ opts.headers
  /\ LET f == CHOOSE x \in reqs[r].file : TRUE
         rec == [reqs[r] EXCEPT !.hdrResult = {extra}]
     IN reqs' = [reqs EXCEPT ![r] =
          Respond(rec, BuildResponse(r, reqs[r].content, f.type, extra), UsedBodies(reqs))]
  /\ UNCHANGED loaderVars

\* no headers callback: await undefined, nothing is spread
HeadersAbsent(r) ==
  /\ reqs[r].pc = "awaitHeaders"
  /\ ~opts.headers
  /\ LET f == CHOOSE x \in reqs[r].file : TRUE
     IN reqs' = [reqs EXCEPT ![r] =
          Respond(reqs[r], BuildResponse(r, reqs[r].content, f.type, <<>>), UsedBodies(reqs))]
  /\ UNCHANGED loaderVars

\* the headers callback throws or its promise rejects
HeadersReject(r) ==
  /\ reqs[r].pc = "awaitHeaders"
  /\ opts.headers
  /\ reqs' = [reqs EXCEPT ![r] = CallbackFailure(reqs[r], "HeadersError")]
  /\ UNCHANGED loaderVars

\* ---------------------------------------------------------- specification

Next ==
  \/ ReturnDisabled
  \/ ScanFails
  \/ ScanStarts
  \/ \E entry \in pending : LoadEntry(entry)
  \/ FinishLoad
  \/ \E r \in ReqIds, text \in RequestTexts : DisabledHandle(r, text)
  \/ \E r \in ReqIds, text \in RequestTexts : Handle(r, text)
  \/ \E r \in ReqIds, injected \in InjectorValues : InjectorResolves(r, injected)
  \/ \E r \in ReqIds : InjectorRejects(r)
  \/ \E r \in ReqIds, extra \in HeaderValues : HeadersResolve(r, extra)
  \/ \E r \in ReqIds : HeadersAbsent(r)
  \/ \E r \in ReqIds : HeadersReject(r)

Spec == Init /\ [][Next]_vars

\* ------------------------------------------------------ reading the state

\* the requests the host has made to a handler that serves files
Served == {r \in ReqIds : ~opts.disabled /\ reqs[r].pc # "idle"}

\* the requests that were answered
Answered == {r \in Served : reqs[r].pc = "done"}

The(option) == CHOOSE x \in option : TRUE

RequestOf(r)  == The(reqs[r].req)
ResponseOf(r) == The(reqs[r].response)

\* the path component of the URL of request r
PathOf(r) == ParseURL(RequestOf(r).url).pathname

\* the index record of the FileTable
IndexRecord == files[KeyOf(opts.index)]

\* the record a request resolves to: its own on a hit, the index on a miss
ResolvedRecord(r) ==
  IF PathOf(r) \in DOMAIN files THEN files[PathOf(r)] ELSE IndexRecord

\* the headers callback was not configured, or did not give a Content-Type
NoTypeOverride(r) ==
  \A extra \in reqs[r].hdrResult : ContentTypeName \notin DOMAIN extra

\* part occurs in whole as a contiguous run
Contains(whole, part) ==
  \E i \in 1..(Len(whole) + 1) :
    /\ i + Len(part) - 1 <= Len(whole)
    /\ SubSeq(whole, i, i + Len(part) - 1) = part

\* ------------------------------------------------------------------- C1

\* C1 (fallback totality): a served request whose path is no key of the
\* FileTable is answered from the index record: its raw bytes when no
\* injector is configured, its decoded text with the placeholder replaced by
\* the injector's result when one is; and the Content-Type is the index
\* record's type unless the headers callback gave one.
FallbackTotality ==
  \A r \in Answered :
    PathOf(r) \notin DOMAIN files =>
      /\ IF opts.indexInjector
           THEN \E injected \in reqs[r].injected :
                  ResponseOf(r).body =
                    TextEncode(Replace(TextDecode(IndexRecord.content),
                                       opts.indexInjectorPlaceholder, injected))
           ELSE ResponseOf(r).body = IndexRecord.content
      /\ The(reqs[r].read).bytes = ResponseOf(r).body
      /\ IndexRecord.content = DiskFiles(opts.dist)[opts.index]
      /\ NoTypeOverride(r) => ResponseOf(r).headers[ContentTypeName] = IndexRecord.type

\* a miss answered with an injector configured, and a miss answered raw
FallbackWitness ==
  \E r \in Answered :
    /\ PathOf(r) \notin DOMAIN files
    /\ PathOf(r) # <<"/">>
    /\ NoTypeOverride(r)
    /\ opts.indexInjector
    /\ ResponseOf(r).body # IndexRecord.content

\* ------------------------------------------------------------------- C2

\* C2 (static exactness): a served request whose path is a key of the
\* FileTable, other than the index record's, is answered with exactly the
\* bytes that file had on disk at load time and, unless the headers callback
\* gave a Content-Type, with that file's detected type; an injector being
\* configured changes nothing.
StaticExactness ==
  \A r \in Answered :
    (PathOf(r) \in DOMAIN files /\ ~files[PathOf(r)].isIndex) =>
      LET entry == Tail(PathOf(r))
      IN /\ ResponseOf(r).body = DiskFiles(opts.dist)[entry]
         /\ The(reqs[r].read) = [ok |-> TRUE, bytes |-> DiskFiles(opts.dist)[entry]]
         /\ reqs[r].injected = {}
         /\ NoTypeOverride(r) => ResponseOf(r).headers[ContentTypeName] = MimeOf(entry)

\* a static file that holds the placeholder, answered with an injector configured
StaticWitness ==
  \E r \in Answered :
    /\ PathOf(r) = KeyOf(AppJs)
    /\ opts.indexInjector
    /\ NoTypeOverride(r)
    /\ Contains(ResponseOf(r).body, <<PhOpen, PhClose>>)

\* ------------------------------------------------------------------- C4

\* the handler of request r is past the point where it calls the injector
PastInjectorCall(r) ==
  reqs[r].pc \in {"awaitInjector", "awaitHeaders", "done"}
    \/ (reqs[r].pc = "failed" /\ reqs[r].error \in {"InjectorError", "HeadersError"})

\* the request resolves to the index record: a miss, or the index's own path
ResolvesToIndex(r) ==
  PathOf(r) \notin DOMAIN files \/ PathOf(r) = KeyOf(opts.index)

\* C4 (injector invocation): within one request the injector is called
\* exactly once if an injector is configured and the request resolves to the
\* index record (a miss, or the index requested by its own path), and not at
\* all otherwise; it is never called for a record whose isIndex is false.
InjectorInvocation ==
  \A r \in ReqIds :
    /\ Len(reqs[r].injCtx) <= 1
    /\ opts.disabled => reqs[r].injCtx = <<>>
    /\ (r \in Served /\ PastInjectorCall(r)) =>
         /\ Len(reqs[r].injCtx) = 1 <=> (opts.indexInjector /\ ResolvesToIndex(r))
         /\ ~ResolvedRecord(r).isIndex => reqs[r].injCtx = <<>>
         /\ ResolvesToIndex(r) <=> ResolvedRecord(r).isIndex

\* with an injector configured: one request answered after one call of the
\* injector for the index's own path, another answered from a static file
\* with no call
InjectorWitness ==
  /\ opts.indexInjector
  /\ \E r \in Answered : PathOf(r) = KeyOf(opts.index) /\ Len(reqs[r].injCtx) = 1
  /\ \E r \in Answered : PathOf(r) = KeyOf(AppJs) /\ reqs[r].injCtx = <<>>

\* ------------------------------------------------------------------- C5

\* C5 (disabled short-circuit): with disabled set, bunSpa does not fail and
\* never scans the directory or reads a file, whatever dist, glob and index
\* are; every request is answered with the status, headers and whole body of
\* the configured disabled response, the n-th as the first, and neither
\* callback is called.
DisabledShortCircuit ==
  opts.disabled =>
    /\ phase \in {"called", "ready"}
    /\ scans = 0 /\ reads = 0 /\ files = <<>>
    /\ \A r \in ReqIds :
         reqs[r].pc # "idle" =>
           /\ reqs[r].pc = "done"
           /\ \A resp \in reqs[r].response :
                /\ resp.status = opts.disabledResponse.status
                /\ resp.headers = opts.disabledResponse.headers
                /\ resp.body = opts.disabledResponse.body
           /\ reqs[r].read = {[ok |-> TRUE, bytes |-> opts.disabledResponse.body]}
           /\ reqs[r].injCtx = <<>> /\ reqs[r].hdrCtx = <<>>

\* a disabled handler over a directory that does not exist, with both
\* callbacks configured, has answered every request the host made
DisabledWitness ==
  /\ opts.disabled
  /\ opts.dist \notin DOMAIN disk
  /\ opts.indexInjector /\ opts.headers
  /\ opts.disabledResponse = CustomDisabledResponse
  /\ \A r \in ReqIds : reqs[r].pc = "done"
  /\ \E r, q \in ReqIds : r # q /\ PathOf(r) # PathOf(q)

\* ------------------------------------------------------------------- C6

\* C6 (construction failure): when the handler is not disabled and no entry
\* matched by the glob equals the index filename (index not in the directory,
\* directory empty, or index excluded by the glob), bunSpa never returns a
\* handler, so no request is ever handled, and once the scan is over the
\* call has failed.
ConstructionFailure ==
  (~opts.disabled /\ opts.dist \in DOMAIN disk
     /\ opts.index \notin ScanEntries(opts.glob, opts.dist)) =>
    /\ phase # "ready"
    /\ \A r \in ReqIds : reqs[r] = Idle
    /\ phase \notin {"called", "scanning"} => (phase = "failed" /\ failure = "TypeError")

\* bunSpa failed after a scan that loaded files but no index: the glob
\* excluded it
ConstructionFailureWitness ==
  /\ phase = "failed"
  /\ failure = "TypeError"
  /\ opts.glob = "**/*.js"
  /\ opts.index \in DOMAIN DiskFiles(opts.dist)
  /\ files # <<>>

\* ------------------------------------------------------------------- C7

\* the handler of request r is past the point where it calls headers
PastHeadersCall(r) ==
  reqs[r].pc \in {"awaitHeaders", "done"}
    \/ (reqs[r].pc = "failed" /\ reqs[r].error = "HeadersError")

\* C7 (header merge): with a headers callback configured, a served request
\* that reaches the construction of its response (a static hit, the index
\* by its own path, or a miss; with or without an injector) has called the
\* callback exactly once; the response carries every header the callback
\* returned, and Content-Type with the resolved record's type unless the
\* callback returned a Content-Type, which then wins.
HeaderMerge ==
  \A r \in Served :
    opts.headers =>
      /\ Len(reqs[r].hdrCtx) <= 1
      /\ PastHeadersCall(r) => Len(reqs[r].hdrCtx) = 1
      /\ r \in Answered =>
           \E extra \in reqs[r].hdrResult :
             LET sent == ResponseOf(r).headers
             IN /\ DOMAIN sent = DOMAIN extra \cup {ContentTypeName}
                /\ \A k \in DOMAIN extra : sent[k] = extra[k]
                /\ ContentTypeName \notin DOMAIN extra =>
                     sent[ContentTypeName] = ResolvedRecord(r).type

\* a static hit whose callback overrode Content-Type beside a miss, answered
\* after an injection, whose callback only added Cache-Control
HeaderMergeWitness ==
  /\ opts.headers /\ opts.indexInjector
  /\ \E r \in Answered :
       /\ PathOf(r) = KeyOf(AppJs)
       /\ ResponseOf(r).headers[ContentTypeName] = "text/custom"
       /\ ResponseOf(r).headers["Cache-Control"] = "no-store"
  /\ \E r \in Answered :
       /\ PathOf(r) \notin DOMAIN files
       /\ reqs[r].injected # {}
       /\ ResponseOf(r).headers[ContentTypeName] = IndexRecord.type
       /\ ResponseOf(r).headers["Cache-Control"] = "no-store"

\* ------------------------------------------------------------------- C8

\* C8 (no injector, no substitution): with no injector configured, every
\* answer that resolves to the index record (a miss, or the index's own
\* path) has as its body the index file's bytes exactly as they were read
\* from disk, placeholders included; nothing is decoded, scanned or replaced.
NoInjectorNoSubstitution ==
  \A r \in Answered :
    (~opts.indexInjector /\ ResolvesToIndex(r)) =>
      /\ ResponseOf(r).body = DiskFiles(opts.dist)[opts.index]
      /\ The(reqs[r].read) = [ok |-> TRUE, bytes |-> DiskFiles(opts.dist)[opts.index]]
      /\ reqs[r].injCtx = <<>> /\ reqs[r].injected = {}

\* a miss answered with no injector from an index that holds the placeholder
\* twice behind a byte order mark
NoInjectorWitness ==
  \E r \in Answered :
    /\ ~opts.indexInjector
    /\ PathOf(r) \notin DOMAIN files
    /\ ResponseOf(r).body[1] = "BOM"
    /\ Contains(ResponseOf(r).body, <<PhOpen, PhClose, "</div>", PhOpen, PhClose>>)

\* ------------------------------------------------------------------- C9

\* every context a callback of request r received
ContextsOf(r) ==
  {reqs[r].injCtx[i] : i \in DOMAIN reqs[r].injCtx}
    \cup {reqs[r].hdrCtx[i] : i \in DOMAIN reqs[r].hdrCtx}

\* each callback call of request r got the URL parsed from r's own request,
\* r's own request object, and the record r is served from
OwnContext(r) ==
  \A ctx \in ContextsOf(r) :
    /\ ctx.req = {[id |-> r, url |-> RequestOf(r).url]}
    /\ \E u \in ctx.url :
         /\ u = ParseURL(RequestOf(r).url)
         /\ SerializeURL(u) = RequestOf(r).url
    /\ ctx.file = {ResolvedRecord(r)}

\* the index document as text
IndexText == TextDecode(DiskFiles(opts.dist)[opts.index])

\* the body is made from the index text and the injector result of the same
\* request
OwnInjection(r, body) ==
  \A injected \in reqs[r].injected :
    body = TextEncode(Replace(IndexText, opts.indexInjectorPlaceholder, injected))

\* C9 as stated (callback context): every call of the injector or of the
\* headers callback receives the URL, the request object and the served
\* record of its own request, also with other requests in flight, and each
\* response body contains the injector result of its own request.
CallbackContextAsStated ==
  \A r \in Served :
    /\ OwnContext(r)
    /\ r \in Answered =>
         \A injected \in reqs[r].injected :
           Contains(ResponseOf(r).body, TextEncode(injected))

\* C9 (callback context), amended: every call of the injector or of the
\* headers callback receives the URL, the request object and the served
\* record of its own request, also with other requests in flight; each
\* body built after an injection is the index text with the placeholder
\* replaced by the injector result of its own request, and contains that
\* result whenever the index text has a match of the placeholder.
CallbackContext_Own ==
  \A r \in Served :
    /\ OwnContext(r)
    /\ reqs[r].pc = "awaitHeaders" => OwnInjection(r, reqs[r].content)
    /\ r \in Answered =>
         /\ OwnInjection(r, ResponseOf(r).body)
         /\ FirstMatch(IndexText, opts.indexInjectorPlaceholder.source, 1) # 0 =>
              \A injected \in reqs[r].injected :
                Contains(ResponseOf(r).body, TextEncode(injected))

\* two requests for different URLs suspended in their headers callbacks at
\* the same time, each after an injector call that resolved to a different
\* string, each holding a body with its own string
CallbackContextWitness ==
  \E r, q \in Served :
    /\ r # q
    /\ reqs[r].pc = "awaitHeaders" /\ reqs[q].pc = "awaitHeaders"
    /\ Len(reqs[r].injCtx) = 1 /\ Len(reqs[q].injCtx) = 1
    /\ Len(reqs[r].hdrCtx) = 1 /\ Len(reqs[q].hdrCtx) = 1
    /\ RequestOf(r).url # RequestOf(q).url
    /\ reqs[r].injected = {<<"<meta-A>">>} /\ reqs[q].injected = {<<"<meta-B>">>}
    /\ Contains(reqs[r].content, <<"<meta-A>">>)
    /\ Contains(reqs[q].content, <<"<meta-B>">>)
    /\ ~Contains(reqs[r].content, <<"<meta-B>">>)

\* ------------------------------------------------------------------ C10

\* the FileTable a complete load of the scanned directory gives
LoadedTable ==
  [k \in {KeyOf(e) : e \in ScanEntries(opts.glob, opts.dist)} |->
     FileRecord(opts.dist, Tail(k), opts.index)]

\* the answer to request r as its own URL, its own callback results and the
\* files on disk determine it
ExpectedResponse(r, injected, extra) ==
  LET entry == IF PathOf(r) \in DOMAIN LoadedTable THEN Tail(PathOf(r)) ELSE opts.index
      bytes == DiskFiles(opts.dist)[entry]
  IN [obj     |-> [kind |-> "response", of |-> r],
      status  |-> 200,
      headers |-> [k \in {ContentTypeName} \cup DOMAIN extra |->
                     IF k \in DOMAIN extra THEN extra[k] ELSE MimeOf(entry)],
      body    |-> IF entry = opts.index /\ opts.indexInjector
                    THEN TextEncode(Replace(TextDecode(bytes),
                                            opts.indexInjectorPlaceholder, injected))
                    ELSE bytes]

\* C10 (callback failure propagation): when the injector or the headers
\* callback throws or rejects, the handler call fails with that failure and
\* gives no response; no callback is called a second time, the FileTable
\* stays as loaded, and every other request, in flight or later, is answered
\* as its own URL and callback results determine.
FailurePropagation ==
  \A r \in Served :
    /\ Len(reqs[r].injCtx) <= 1 /\ Len(reqs[r].hdrCtx) <= 1
    /\ files = LoadedTable
    /\ reqs[r].pc = "failed" =>
         /\ reqs[r].response = {} /\ reqs[r].read = {}
         /\ \/ reqs[r].error = "InjectorError"
               /\ Len(reqs[r].injCtx) = 1 /\ reqs[r].hdrCtx = <<>>
            \/ reqs[r].error = "HeadersError" /\ Len(reqs[r].hdrCtx) = 1
    /\ reqs[r].pc = "done" =>
         /\ reqs[r].error = ""
         /\ \E injected \in reqs[r].injected \cup {<<>>},
               extra \in reqs[r].hdrResult \cup {<<>>} :
              /\ reqs[r].injected \in {{}, {injected}}
              /\ reqs[r].hdrResult \in {{}, {extra}}
              /\ reqs[r].injected = {} => injected = <<>>
              /\ reqs[r].hdrResult = {} => extra = <<>>
              /\ ResponseOf(r) = ExpectedResponse(r, injected, extra)
              /\ The(reqs[r].read) = [ok |-> TRUE, bytes |-> ResponseOf(r).body]

\* a request answered from the index, after an injection, beside a request
\* for the same URL that failed
FailureIsolationWitness ==
  \E r, q \in Served :
    /\ reqs[r].pc = "failed"
    /\ reqs[q].pc = "done"
    /\ RequestOf(r).url = RequestOf(q).url
    /\ reqs[q].injected # {}
    /\ ResponseOf(q).status = 200

\* ------------------------------------------------------------------- C3

\* a RegExp placeholder with a character class and the g flag
ClassPlaceholder ==
  [regexp |-> TRUE, global |-> TRUE, source |-> <<{PhOpen, "x"}, {PhClose}>>]

\* index documents of up to MaxDocLen tokens over the placeholder's two
\* halves and one other token
IndexDocuments == SeqsUpTo({PhOpen, PhClose, "x"}, MaxDocLen)

\* injector results: nothing, plain text, the placeholder itself, and the
\* second half of the placeholder
InjectedStrings == { <<>>, <<"y">>, <<PhOpen, PhClose>>, <<PhClose>> }

InitReplace ==
  /\ \E doc \in IndexDocuments : disk = [d \in {"dist"} |-> (IndexHtml :> doc)]
  /\ opts \in [dist : {"dist"}, glob : {"**/*"}, index : {IndexHtml},
               indexInjectorPlaceholder :
                 {DefaultPlaceholder, PlainPlaceholder, GlobalPlaceholder, ClassPlaceholder},
               indexInjector : {TRUE}, headers : {FALSE},
               disabled : {FALSE}, disabledResponse : {DefaultDisabledResponse}]
  /\ phase = "called"
  /\ pending = {}
  /\ scans = 0
  /\ reads = 0
  /\ files = <<>>
  /\ indexFile = {}
  /\ indexContent = <<>>
  /\ failure = ""
  /\ reqs = [r \in ReqIds |-> Idle]

\* the host makes one request, for the root path or for the index's own path
NextReplace ==
  \/ ScanStarts
  \/ \E entry \in pending : LoadEntry(entry)
  \/ FinishLoad
  \/ \E text \in {<<"http://", "localhost", "/">>,
                  <<"http://", "localhost", "/">> \o IndexHtml} : Handle(1, text)
  \/ \E injected \in InjectedStrings : InjectorResolves(1, injected)
  \/ HeadersAbsent(1)

SpecReplace == InitReplace /\ [][NextReplace]_vars

\* the injector's string shares no token with the placeholder and is not empty
ForeignTo(injected, source) ==
  /\ injected # <<>>
  /\ \A i \in DOMAIN injected, k \in DOMAIN source : injected[i] \notin source[k]

\* C3 as stated (placeholder substitution): with an injector configured and
\* N >= 0 occurrences of the placeholder in the index document, the body of
\* an index or fallback response has all N occurrences (all non-overlapping
\* matches) replaced by the injector's string and no occurrence of the
\* placeholder remains, for a literal string as for a pattern.  Stated here
\* for injector results that bring no placeholder text of their own.
SubstitutionAsStated ==
  \A r \in Answered :
    \A injected \in reqs[r].injected :
      LET source == opts.indexInjectorPlaceholder.source
      IN ForeignTo(injected, source) =>
           /\ ResponseOf(r).body = TextEncode(ReplaceFrom(IndexText, source, injected, 1))
           /\ FirstMatch(ResponseOf(r).body, source, 1) = 0

\* C3 (placeholder substitution), amended: with an injector configured, the
\* body of an index or fallback response is the index text in which the
\* injector's string replaces the leftmost occurrence only when the
\* placeholder is a literal string or a pattern without the global flag
\* (everything after it, further occurrences included, is left as it was),
\* and every non-overlapping match when it is a pattern with the global
\* flag; with no occurrence the text is unchanged.  No match remains in the
\* global case when the injected string is not empty and shares no text
\* with the placeholder.
Substitution ==
  \A r \in Answered :
    \A injected \in reqs[r].injected :
      LET source == opts.indexInjectorPlaceholder.source
          global == opts.indexInjectorPlaceholder.regexp /\ opts.indexInjectorPlaceholder.global
          m      == FirstMatch(IndexText, source, 1)
          body   == ResponseOf(r).body
      IN /\ m = 0 => body = TextEncode(IndexText)
         /\ (m # 0 /\ ~global) =>
              body = TextEncode(SubSeq(IndexText, 1, m - 1) \o injected
                                  \o Tail1(IndexText, m + Len(source)))
         /\ global =>
              /\ body = TextEncode(ReplaceFrom(IndexText, source, injected, 1))
              /\ ForeignTo(injected, source) => FirstMatch(body, source, 1) = 0

\* a literal placeholder that occurs twice: the answer holds the injected
\* string first and the second occurrence still
SubstitutionWitness ==
  \E r \in Answered :
    /\ opts.indexInjectorPlaceholder = DefaultPlaceholder
    /\ IndexText = <<PhOpen, PhClose, PhOpen, PhClose>>
    /\ reqs[r].injected = {<<"y">>}
    /\ ResponseOf(r).body = <<"y", PhOpen, PhClose>>

\* ------------------------------------------------------------------ C11

\* C11 as stated (immutable cache under concurrent reads): handling
\* requests never adds, removes or changes a FileTable entry, so after any
\* interleaving of requests every record's bytes and type are what was
\* loaded, and every answer to the same request path has the same body.
ImmutableCacheAsStated ==
  /\ (phase = "ready" /\ ~opts.disabled) => files = LoadedTable
  /\ \A r, q \in Answered :
       PathOf(r) = PathOf(q) => ResponseOf(r).body = ResponseOf(q).body

\* C11 (immutable cache under concurrent reads), amended: handling requests
\* never adds, removes or changes a FileTable entry, so after any
\* interleaving of requests (also with requests suspended in callbacks)
\* every record's bytes and type are what was loaded from disk; two answers
\* to the same request path have the same body, byte for byte, when neither
\* went through the injector or the injector resolved to the same string
\* for both.
ImmutableCache ==
  /\ disk = TestDisk
  /\ (phase = "ready" /\ ~opts.disabled) =>
       /\ files = LoadedTable
       /\ \A k \in DOMAIN files :
            /\ files[k].content = DiskFiles(opts.dist)[Tail(k)]
            /\ files[k].type = MimeOf(Tail(k))
       /\ indexFile = {IndexRecord}
  /\ \A r, q \in Answered :
       (PathOf(r) = PathOf(q) /\ reqs[r].injected = reqs[q].injected) =>
         /\ ResponseOf(r).body = ResponseOf(q).body
         /\ \A a \in reqs[r].read, b \in reqs[q].read :
              a.ok /\ b.ok /\ a.bytes = b.bytes

\* with both callbacks configured, the same static file answered twice
\* with the bytes it had on disk
ImmutableCacheWitness ==
  \E r, q \in Answered :
    /\ r # q
    /\ opts.indexInjector /\ opts.headers
    /\ PathOf(r) = KeyOf(AppJs) /\ PathOf(q) = KeyOf(AppJs)
    /\ ResponseOf(r).body = DiskFiles(opts.dist)[AppJs]
    /\ ResponseOf(q).body = ResponseOf(r).body

\* ------------------------------------------------------------- C12, C13

\* the origin the tests send their requests to, and origins that differ
\* from it in port, and in host and port
PlainOrigin == <<"http://", "localhost">>

Origins ==
  { PlainOrigin,
    <<"http://", "localhost", ":", "3000">>,
    <<"http://", "example.com", ":", "3000">> }

\* what may follow the path: nothing, a query string, a hash fragment, both
Suffixes == { <<>>, <<"?", "v=1">>, <<"#", "top">>, <<"?", "v=1", "#", "top">> }

\* the paths requested: the root, every file of the directory by its
\* relative path, and a client-side route
RequestPaths == {<<>>, <<"some", "/", "route">>} \cup DOMAIN TestDisk["dist"]

\* the text a Request is made from: origin + "/" + path + suffix
UrlText(origin, path, suffix) == origin \o <<"/">> \o path \o suffix

InitPaths ==
  /\ disk = TestDisk
  /\ opts \in [dist : {"dist"}, glob : {"**/*"}, index : {IndexHtml},
               indexInjectorPlaceholder : {DefaultPlaceholder},
               indexInjector : BOOLEAN, headers : BOOLEAN,
               disabled : {FALSE}, disabledResponse : {DefaultDisabledResponse}]
  /\ phase = "called"
  /\ pending = {}
  /\ scans = 0
  /\ reads = 0
  /\ files = <<>>
  /\ indexFile = {}
  /\ indexContent = <<>>
  /\ failure = ""
  /\ reqs = [r \in ReqIds |-> Idle]

\* the host makes two requests: one for a path at the plain origin, one
\* for a path at any origin with any suffix
NextPaths ==
  \/ ScanStarts
  \/ \E entry \in pending : LoadEntry(entry)
  \/ FinishLoad
  \/ \E path \in RequestPaths : Handle(1, UrlText(PlainOrigin, path, <<>>))
  \/ \E origin \in Origins, path \in RequestPaths, suffix \in Suffixes :
       Handle(2, UrlText(origin, path, suffix))
  \/ \E r \in {1, 2}, injected \in InjectorValues : InjectorResolves(r, injected)
  \/ \E r \in {1, 2}, extra \in HeaderValues : HeadersResolve(r, extra)
  \/ \E r \in {1, 2} : HeadersAbsent(r)

SpecPaths == InitPaths /\ [][NextPaths]_vars

\* the Content-Type the two answers carry cannot differ through the
\* headers callback: it gave none, or it gave both the same headers
SameTypeOverride(r, q) ==
  (NoTypeOverride(r) /\ NoTypeOverride(q)) \/ reqs[r].hdrResult = reqs[q].hdrResult

\* the root path is answered from the index record with status 200
RootServesIndex ==
  /\ phase = "ready" => <<"/">> \notin DOMAIN files
  /\ \A r \in Answered :
       PathOf(r) = <<"/">> =>
         /\ reqs[r].file = {IndexRecord}
         /\ ResponseOf(r).status = 200
         /\ reqs[r].injected = {} => ResponseOf(r).body = IndexRecord.content
         /\ \A injected \in reqs[r].injected :
              ResponseOf(r).body =
                TextEncode(Replace(TextDecode(IndexRecord.content),
                                   opts.indexInjectorPlaceholder, injected))

\* C12 as stated (path-only lookup): the FileTable is looked up with
\* exactly the path component of the request URL; two requests that differ
\* only in query string, hash fragment, host or port resolve to the same
\* record and get the same body and Content-Type; the root path, never a
\* key, is answered with the index document and status 200.
PathOnlyLookupAsStated ==
  /\ RootServesIndex
  /\ \A r, q \in Answered :
       (PathOf(r) = PathOf(q) /\ RequestOf(r).url # RequestOf(q).url) =>
         /\ reqs[r].file = reqs[q].file
         /\ ResponseOf(r).body = ResponseOf(q).body
         /\ ResponseOf(r).headers[ContentTypeName] = ResponseOf(q).headers[ContentTypeName]

\* C12 (path-only lookup), amended: the FileTable is looked up with exactly
\* the path component of the request URL; two requests that differ only in
\* query string, hash fragment, host or port resolve to the same record,
\* get the same body when neither went through the injector or the injector
\* resolved to the same string for both, and get the same Content-Type when
\* the headers callback gave no Content-Type to either or the same headers
\* to both; the root path, never a key, is answered with the index document
\* and status 200.
PathOnlyLookup ==
  /\ RootServesIndex
  /\ \A r \in Answered : reqs[r].file = {ResolvedRecord(r)}
  /\ \A r, q \in Answered :
       PathOf(r) = PathOf(q) =>
         /\ reqs[r].file = reqs[q].file
         /\ reqs[r].injected = reqs[q].injected =>
              ResponseOf(r).body = ResponseOf(q).body
         /\ SameTypeOverride(r, q) =>
              ResponseOf(r).headers[ContentTypeName] = ResponseOf(q).headers[ContentTypeName]

\* a static file answered twice with the same bytes and type, for two URLs
\* that differ in host, port, query string and hash fragment
PathOnlyLookupWitness ==
  \E r, q \in Answered :
    /\ RequestOf(r).url = UrlText(PlainOrigin, AppJs, <<>>)
    /\ RequestOf(q).url =
         UrlText(<<"http://", "example.com", ":", "3000">>, AppJs, <<"?", "v=1", "#", "top">>)
    /\ reqs[r].file = {files[KeyOf(AppJs)]}
    /\ reqs[q].file = reqs[r].file
    /\ ResponseOf(q).body = ResponseOf(r).body
    /\ NoTypeOverride(r) /\ NoTypeOverride(q)
    /\ ResponseOf(q).headers[ContentTypeName] = MimeOf(AppJs)

\* C13 (every loaded file is reachable by its name): for every file the
\* glob matched, with relative path e, the request for origin + "/" + e is
\* answered with status 200 from that file's own record and with exactly
\* that file's bytes, not with the index fallback.  Stated for the answers
\* that do not go through the injector.
ReachableByName ==
  \A r \in Answered :
    \A e \in ScanEntries(opts.glob, opts.dist) :
      (/\ RequestOf(r).url = NewRequest(UrlText(PlainOrigin, e, <<>>)).url
       /\ reqs[r].injected = {}) =>
        /\ ResponseOf(r).status = 200
        /\ reqs[r].file = {files[KeyOf(e)]}
        /\ ResponseOf(r).body = DiskFiles(opts.dist)[e]

\* ------------------------------------------------------------------ C14

\* C14 (load-then-freeze ordering): a handler call is only ever made on a
\* handler bunSpa has returned; for a handler that is not disabled, at that
\* point the scan is over and every file the glob matched has been read
\* whole into the FileTable; the directory is scanned once and each matched
\* file read once per bunSpa call, and handling requests, however many,
\* adds no scan and no read.
LoadThenFreeze ==
  /\ \A r \in ReqIds : reqs[r].pc # "idle" => phase = "ready"
  /\ scans <= 1
  /\ (phase = "ready" /\ ~opts.disabled) =>
       /\ pending = {}
       /\ scans = 1
       /\ reads = Cardinality(ScanEntries(opts.glob, opts.dist))
       /\ DOMAIN files = {KeyOf(e) : e \in ScanEntries(opts.glob, opts.dist)}
       /\ \A e \in ScanEntries(opts.glob, opts.dist) :
            files[KeyOf(e)].content = DiskFiles(opts.dist)[e]

\* every request the host made was answered by a handler that had read
\* four files in one scan
LoadThenFreezeWitness ==
  /\ ~opts.disabled
  /\ \A r \in ReqIds : reqs[r].pc = "done"
  /\ scans = 1
  /\ reads = 4
  /\ Cardinality(DOMAIN files) = 4

\* ------------------------------------------------------------------ C15

\* the keys of the FileTable whose record has isIndex = true
IndexKeys == {k \in DOMAIN files : files[k].isIndex}

\* C15 (index uniqueness): at no point, loading included, does more than
\* one record of the FileTable have isIndex = true, and a record that has
\* it is stored under "/" + index filename, its relative path being the
\* index filename itself; once bunSpa has returned a handler that is not
\* disabled, exactly one record has it, and it is the record the handler
\* falls back to.
IndexUniqueness ==
  /\ Cardinality(IndexKeys) <= 1
  /\ \A k \in IndexKeys : k = KeyOf(opts.index) /\ Tail(k) = opts.index
  /\ (phase = "ready" /\ ~opts.disabled) =>
       /\ IndexKeys = {KeyOf(opts.index)}
       /\ indexFile = {files[KeyOf(opts.index)]}

\* a handler built with index custom.html over a directory that also holds
\* index.html: of the four records only custom.html's has isIndex
IndexUniquenessWitness ==
  /\ phase = "ready"
  /\ opts.index = CustomHtml
  /\ Cardinality(DOMAIN files) = 4
  /\ IndexKeys = {KeyOf(CustomHtml)}
  /\ ~files[KeyOf(IndexHtml)].isIndex

\* ------------------------------------------------------------------ C16

\* C16 (per-request callback ordering): a handler call that is neither
\* answered nor failed is suspended in one of two places, the await of the
\* injector or the await of the headers callback.  With both callbacks
\* configured and a request that resolves to the index record: the injector
\* is called first; while its result is awaited the headers callback has
\* not been called; the headers callback has been called only if the
\* injector's result resolved; and after a failure of the injector it has
\* not been called for that request.
CallbackOrdering ==
  \A r \in Served :
    /\ reqs[r].pc \in {"awaitInjector", "awaitHeaders", "done", "failed"}
    /\ (opts.indexInjector /\ opts.headers /\ ResolvesToIndex(r)) =>
         /\ Len(reqs[r].injCtx) = 1
         /\ reqs[r].pc = "awaitInjector" =>
              reqs[r].injected = {} /\ reqs[r].hdrCtx = <<>>
         /\ reqs[r].hdrCtx # <<>> =>
              Len(reqs[r].hdrCtx) = 1 /\ reqs[r].injected # {}
         /\ reqs[r].pc = "awaitHeaders" =>
              Len(reqs[r].hdrCtx) = 1 /\ reqs[r].hdrResult = {}
         /\ (reqs[r].pc = "failed" /\ reqs[r].error = "InjectorError") =>
              reqs[r].hdrCtx = <<>> /\ reqs[r].hdrResult = {} /\ reqs[r].injected = {}
         /\ reqs[r].pc = "done" =>
              reqs[r].injected # {} /\ reqs[r].hdrResult # {}

\* with both callbacks configured, a miss whose injector failed, with no
\* call of the headers callback, beside a miss answered after one call of
\* each
CallbackOrderingWitness ==
  /\ opts.indexInjector /\ opts.headers
  /\ \E r, q \in Served :
       /\ PathOf(r) \notin DOMAIN files /\ PathOf(q) \notin DOMAIN files
       /\ reqs[r].pc = "failed" /\ reqs[r].error = "InjectorError"
       /\ Len(reqs[r].injCtx) = 1 /\ reqs[r].hdrCtx = <<>>
       /\ reqs[q].pc = "done"
       /\ Len(reqs[q].injCtx) = 1 /\ Len(reqs[q].hdrCtx) = 1

====
